---- MODULE Spec2Model ----
(***************************************************************************)
(* pigame: a command-line game that compares the user's digits of pi with  *)
(* a reference.  The repository ships two builds of the C program:         *)
(*   src/src/c/pigame.c  (version 1.6.0, build "c")                        *)
(*   src/pigame.c        (version 1.5.1, build "legacy")                   *)
(* C strings are modelled as sequences of one-character strings; the C     *)
(* index i (from 0) of a string s is s[i + 1] here.                        *)
(***************************************************************************)
EXTENDS Integers, Sequences, FiniteSets, TLC

VARIABLES build, opts, your_pi, pc, verbose, colorblind_mode, length,
          pi, formatted_pi, rendered, error_count, verdict,
          out, err, exit_code, opt, optopt, fn, args, ret

vars == <<build, opts, your_pi, pc, verbose, colorblind_mode, length,
          pi, formatted_pi, rendered, error_count, verdict,
          out, err, exit_code, opt, optopt, fn, args, ret>>

mainVars == <<build, opts, your_pi, pc, verbose, colorblind_mode, length,
              pi, formatted_pi, rendered, error_count, verdict,
              out, err, exit_code, opt, optopt>>

unitVars == <<fn, args, ret>>

DEFAULT_LENGTH == 15

MAX_LENGTH == 5001

(* ----------------------------- bounds ---------------------------------- *)
\* longest string drawn for input_validation
MaxInputLen == 4

\* longest -p argument drawn for length_validation
MaxArgLen == 5

\* largest length drawn for calc_pi
MaxCalcLen == 60

\* most fractional digits of a PiString drawn for the Formatter / Differ
MaxPiDigits == 11

\* longest candidate and reference drawn for the Differ alone
MaxDiffLen == 4

\* most option tokens on a command line
MaxOpts == 2

\* longest free-form candidate on a command line
MaxCandLen == 3

\* largest digit count of a candidate built from a reference
MaxRefLen == 31

\* how far the longest candidate exceeds MAX_LENGTH + 2 characters
MaxOver == 1

(* --------------------------- C library --------------------------------- *)
Digit == {"0", "1", "2", "3", "4", "5", "6", "7", "8", "9"}

isdigit(c) == c \in Digit

isspace(c) == c \in {" ", "\t", "\n", "\f", "\r"}

DigitValue(c) ==
    CASE c = "0" -> 0 [] c = "1" -> 1 [] c = "2" -> 2 [] c = "3" -> 3
      [] c = "4" -> 4 [] c = "5" -> 5 [] c = "6" -> 6 [] c = "7" -> 7
      [] c = "8" -> 8 [] c = "9" -> 9

DigitChar(d) ==
    CASE d = 0 -> "0" [] d = 1 -> "1" [] d = 2 -> "2" [] d = 3 -> "3"
      [] d = 4 -> "4" [] d = 5 -> "5" [] d = 6 -> "6" [] d = 7 -> "7"
      [] d = 8 -> "8" [] d = 9 -> "9"

strlen(s) == Len(s)

\* strcmp(a, b) == 0
strcmp0(a, b) == a = b

\* concatenation of parts[lo..hi], the text a loop emits piece by piece
RECURSIVE Flatten(_, _, _)
Flatten(parts, lo, hi) ==
    IF lo > hi THEN <<>>
    ELSE IF lo = hi THEN parts[lo]
    ELSE LET mid == (lo + hi) \div 2
         IN  Flatten(parts, lo, mid) \o Flatten(parts, mid + 1, hi)

\* sum of terms[lo..hi], the value a counter reaches over a loop
RECURSIVE SumRange(_, _, _)
SumRange(terms, lo, hi) ==
    IF lo > hi THEN 0
    ELSE IF lo = hi THEN terms[lo]
    ELSE LET mid == (lo + hi) \div 2
         IN  SumRange(terms, lo, mid) + SumRange(terms, mid + 1, hi)

(* strtol(input, &endptr, 10): skips leading white space, takes an optional
   sign and the longest run of digits.  endptr is the C index of the first
   character not consumed; with no digits at all nothing is consumed and the
   value is 0.  The arguments drawn here are short enough that the
   saturation at LONG_MAX is never reached. *)
RECURSIVE SkipSpace(_, _)
SkipSpace(input, i) ==
    IF i < Len(input) /\ isspace(input[i + 1]) THEN SkipSpace(input, i + 1) ELSE i

RECURSIVE DigitRun(_, _, _)
DigitRun(input, i, acc) ==
    IF i < Len(input) /\ isdigit(input[i + 1])
    THEN DigitRun(input, i + 1, 10 * acc + DigitValue(input[i + 1]))
    ELSE [value |-> acc, endptr |-> i]

strtol(input) ==
    LET s    == SkipSpace(input, 0)
        neg  == s < Len(input) /\ input[s + 1] = "-"
        sgn  == s < Len(input) /\ input[s + 1] \in {"-", "+"}
        d0   == IF sgn THEN s + 1 ELSE s
        run  == DigitRun(input, d0, 0)
    IN  IF run.endptr = d0
        THEN [value |-> 0, endptr |-> 0]
        ELSE [value |-> IF neg THEN 0 - run.value ELSE run.value,
              endptr |-> run.endptr]

(* ------------------------- validation ---------------------------------- *)
\* src/src/c/pigame.c: input_validation
input_validation(input) ==
    IF strlen(input) = 0 THEN FALSE
    ELSE IF \E i \in 0..(Len(input) - 1) :
                input[i + 1] # "." /\ ~isdigit(input[i + 1])
         THEN FALSE
         ELSE Cardinality({i \in 0..(Len(input) - 1) : input[i + 1] = "."}) <= 1

\* src/pigame.c: input_validation (no test for the empty string)
input_validation_legacy(input) ==
    IF \E i \in 0..(Len(input) - 1) :
           input[i + 1] # "." /\ ~isdigit(input[i + 1])
    THEN FALSE
    ELSE Cardinality({i \in 0..(Len(input) - 1) : input[i + 1] = "."}) <= 1

\* length_validation: -1 stands for the error return (after the message)
length_validation(input) ==
    LET r == strtol(input)
    IN  IF r.endptr # Len(input) \/ r.value <= 0 \/ r.value > MAX_LENGTH
        THEN -1
        ELSE r.value

(* ------------------------- reference digits ---------------------------- *)
(* The significant digits of the value that calc_pi's series (lines 108-181)
   converges to, as printed by the compiled program.  The recurrence for A
   lacks the factor 24 of the Chudnovsky series, so the value leaves the
   digits of pi after the 13th decimal.  The number of terms and the
   precision grow with the length, so every length sees these digits. *)
PiComputed ==
<<
    3,1,4,1,5,9,2,6,5,3,5,8,9,7,3,6,6,6,7,2,8,4,8,7,8,1,6,6,2,0,0,5,1,7,0,1,1,4,1,3,0,3,4,7,3,5,1,4,9,4,6,0,8,2,1,9,0,7,7,6,
    9,3,8,0,6,0,3,8,5,3,1,9,0,5,0,0,5,4,2,4,2,1,7,2,0,8,9,3,3,6,6,3,3,1,2,2,0,4,0,0,3,0,4,0,2,6,4,6,6,3,8,5,7,7,2,1,7,3,9,5,
    9,6,5,6,5,8,0,7,6,9,8,3,8,3,8,2,1,0,9,2,2,9,6,1,9,2,4,3,2,0,9,9,3,5,2,9,5,9,3,4,4,0,0,5,1,9,6,8,4,9,9,9,4,0,0,6,1,1,2,9,
    8,8,9,0,2,2,9,7,0,1,9,4,6,0,6,3,2,7,0,6,5,6,3,9,2,4,9,4,9,9,7,7,8,9,9,6,3,4,3,3,1,1,2,6,3,2,3,6,4,7,9,6,7,4,7,6,3,4,6,0,
    1,6,1,4,8,9,6,5,1,7,6,1,0,5,4,5,5,4,4,3,2,7,8,0,1,0,6,6,3,8,3,4,6,2,8,3,3,9,7,4,8,5,9,2,6,9,8,6,6,5,7,5,3,2,2,9,8,7,4,3,
    3,5,8,6,8,3,6,2,2,5,8,7,4,6,3,7,7,6,6,7,4,7,5,2,5,8,5,2,5,3,2,5,5,1,3,9,8,3,9,7,6,1,6,9,3,7,3,9,7,6,7,7,8,7,3,9,9,5,5,0,
    2,9,4,1,1,4,9,3,6,5,3,9,6,9,4,0,5,5,5,4,9,5,7,3,2,3,4,4,7,3,9,4,8,8,2,6,7,8,4,0,9,0,3,1,7,2,3,7,9,9,4,2,5,9,6,1,1,3,9,8,
    4,0,1,8,3,4,2,4,9,5,7,6,0,2,1,4,2,9,4,5,8,3,3,0,4,1,8,1,0,5,2,0,2,3,6,5,4,6,8,3,5,5,1,5,6,7,9,8,9,7,1,0,9,0,5,7,6,9,1,0,
    9,8,3,7,3,2,8,2,1,3,6,1,0,6,1,3,7,3,6,5,7,0,8,2,8,3,7,1,7,7,0,3,7,1,3,7,4,5,6,7,4,1,0,6,5,8,3,0,0,3,6,6,6,2,3,2,7,3,0,2,
    2,0,4,5,5,3,0,5,4,7,0,1,9,0,5,6,0,0,4,3,3,8,9,4,9,0,3,4,9,1,8,4,9,0,9,1,6,6,6,7,9,8,8,1,6,6,8,0,3,1,8,6,6,9,4,2,2,1,0,0,
    3,2,7,2,0,6,9,8,2,4,6,7,2,6,7,8,5,5,7,9,1,6,7,8,2,8,7,8,1,9,0,4,4,4,1,5,0,5,2,6,8,5,2,8,6,7,1,1,5,2,7,4,8,3,7,9,9,7,0,7,
    5,7,4,4,5,3,1,0,8,2,3,6,7,4,0,4,4,9,9,1,8,5,3,6,9,3,1,3,2,1,3,9,4,5,0,0,7,1,4,2,2,3,3,4,6,7,9,6,1,5,7,9,8,1,6,4,3,9,2,3,
    6,1,2,7,4,3,6,5,0,6,4,3,6,0,5,4,6,8,2,6,5,2,2,7,5,7,2,5,5,0,4,2,7,6,6,9,9,3,1,2,4,6,9,0,0,6,3,9,7,2,7,0,9,4,8,8,1,1,7,9,
    6,6,2,3,5,4,8,2,7,9,7,4,2,3,6,3,6,4,0,4,8,4,6,9,6,1,0,7,5,7,1,3,2,5,1,4,6,4,2,8,1,3,9,5,4,8,1,1,0,0,0,5,4,7,6,8,3,9,8,3,
    7,6,6,2,6,0,7,2,7,9,3,7,0,7,4,5,3,4,5,5,1,1,3,0,4,4,4,0,3,9,2,2,4,7,4,0,0,4,3,1,7,9,4,1,0,8,6,5,2,4,7,3,0,9,0,6,1,8,4,5,
    3,0,1,5,4,9,5,8,8,7,6,6,1,7,9,8,3,1,9,5,6,7,0,6,9,9,1,8,5,1,2,3,6,4,8,3,6,1,4,7,1,4,5,7,2,1,0,3,1,8,8,1,0,7,5,1,2,7,2,1,
    4,1,2,5,0,6,2,6,8,4,8,7,9,7,5,7,1,8,6,5,1,1,3,7,6,5,5,7,3,1,6,9,6,9,9,1,8,0,1,6,0,5,0,9,5,2,6,0,4,7,0,1,6,4,2,1,2,6,9,8,
    7,1,0,0,9,6,8,6,1,1,2,0,1,0,6,2,4,3,4,3,2,3,4,5,5,7,6,6,2,9,7,6,7,5,2,9,6,7,7,5,1,5,4,5,4,2,4,7,8,8,0,0,1,7,9,8,1,3,1,2,
    7,2,3,7,3,7,8,9,5,1,7,2,7,0,7,4,3,1,0,7,4,6,7,2,0,6,0,4,7,3,6,6,1,8,9,6,1,9,5,5,9,0,0,4,4,7,6,2,3,3,1,4,3,1,7,0,3,3,8,0,
    1,4,1,6,9,8,8,1,5,2,9,2,0,5,1,3,4,5,8,0,2,3,1,1,2,5,0,7,5,5,8,5,7,5,1,9,3,1,6,7,9,2,1,3,3,4,1,7,1,8,9,8,3,8,5,0,9,2,2,8,
    7,0,7,9,4,5,1,1,3,9,5,8,2,8,3,9,6,7,5,2,7,4,6,0,8,9,0,0,6,9,3,8,3,6,6,1,4,7,2,9,3,8,2,7,3,9,4,3,1,5,3,9,1,8,7,6,6,8,4,9,
    4,3,9,8,6,2,1,8,4,7,7,0,2,3,4,9,0,6,4,4,0,2,4,6,3,8,7,4,6,4,3,5,5,6,1,0,0,8,1,4,6,5,4,4,6,7,1,5,6,1,6,5,4,3,0,2,7,2,1,2,
    1,1,5,6,2,5,0,4,7,0,6,2,8,9,8,8,1,0,4,7,7,3,6,8,3,6,4,7,9,0,3,4,2,7,9,1,8,8,8,2,7,2,2,8,0,8,0,6,8,9,4,5,3,6,7,9,5,0,1,0,
    0,2,3,0,1,3,8,2,8,6,3,3,2,7,4,8,5,1,3,2,4,1,4,3,2,0,5,8,2,3,1,3,6,3,3,4,9,7,0,0,3,5,2,1,5,6,7,1,5,3,4,8,0,4,2,0,0,8,8,8,
    7,7,2,2,4,0,0,0,0,8,2,6,0,6,8,7,9,0,0,6,4,8,1,0,4,2,6,2,2,3,7,8,3,5,0,9,5,3,3,3,1,8,5,1,2,4,7,7,0,1,7,7,8,0,1,2,9,6,3,2,
    7,2,5,6,8,1,1,8,4,9,7,7,1,9,8,9,6,5,5,2,5,0,1,1,0,5,3,9,1,3,6,4,2,2,9,3,1,5,8,8,7,5,5,2,6,1,3,4,7,7,5,6,8,2,5,6,6,3,4,8,
    7,3,1,2,1,9,8,0,1,5,3,5,7,2,7,9,9,6,8,4,7,5,6,2,0,3,8,4,7,3,7,5,9,1,8,0,1,2,3,4,8,4,0,1,9,8,5,8,4,4,2,5,2,0,6,9,5,0,5,3,
    7,9,1,7,4,3,6,2,7,5,7,1,1,4,3,2,8,5,7,5,5,4,8,3,5,6,0,2,7,9,3,9,6,8,5,1,2,6,8,7,5,5,6,4,1,1,5,3,8,6,5,1,4,8,8,4,4,4,5,5,
    9,9,6,9,4,5,6,1,1,0,9,7,5,7,1,0,3,5,8,5,5,7,2,1,7,7,9,6,3,2,4,5,4,3,7,0,1,9,0,5,7,7,3,9,8,3,4,0,9,5,9,1,8,1,6,0,6,5,6,1,
    9,7,8,3,5,5,4,7,3,9,8,9,0,9,3,6,1,5,2,2,5,7,8,8,1,7,1,9,0,2,9,9,0,6,8,7,3,8,2,4,0,5,5,3,5,9,2,3,5,9,3,4,5,2,3,2,2,9,7,2,
    3,0,6,1,6,1,1,6,6,3,1,7,3,4,3,2,4,9,0,7,3,5,3,9,5,7,3,1,6,2,3,5,1,2,4,6,0,9,2,5,8,1,6,7,1,9,2,5,3,7,8,3,9,4,7,9,4,4,0,9,
    0,8,5,7,1,2,5,8,0,8,8,1,9,8,3,4,1,6,6,8,4,9,3,8,3,7,3,3,5,3,4,1,5,1,0,4,1,0,0,0,1,5,6,7,3,6,0,6,1,5,9,0,7,5,5,4,1,5,0,0,
    5,1,2,4,2,2,5,1,5,4,7,4,4,9,3,3,4,6,3,4,9,3,7,4,6,5,0,9,3,0,2,0,1,0,8,6,9,2,8,9,8,0,9,5,0,4,7,8,0,9,4,0,8,9,4,4,1,6,7,0,
    8,8,8,1,5,9,8,5,1,6,2,2,9,2,2,8,2,1,1,6,3,2,5,4,8,4,8,7,9,6,5,4,8,3,0,0,3,3,5,5,7,0,5,9,6,0,2,1,6,3,0,4,8,3,3,9,7,5,4,0,
    7,0,8,4,4,8,4,5,4,7,9,2,9,2,1,6,6,4,7,6,3,2,6,2,5,1,9,4,4,4,6,3,7,6,7,3,1,9,1,6,6,9,9,8,1,4,2,1,5,4,0,5,5,0,1,2,4,8,7,0,
    5,8,4,6,1,6,6,0,9,2,8,5,1,4,0,0,5,3,9,9,4,1,5,2,4,6,0,9,9,6,4,5,2,6,3,5,5,4,5,0,6,8,3,1,1,9,0,7,6,4,7,6,1,6,2,3,4,5,9,0,
    4,9,1,9,6,2,3,5,4,7,7,9,8,5,2,4,5,7,5,8,9,0,5,6,6,7,5,8,5,4,6,0,3,6,5,6,6,2,6,1,3,2,9,7,0,0,1,4,0,5,5,9,3,6,5,6,5,2,8,3,
    5,7,6,4,8,7,9,7,4,9,8,4,1,2,0,7,6,2,5,8,3,0,3,1,6,2,3,3,3,8,2,4,1,8,8,6,2,0,8,0,4,0,8,2,6,0,9,7,4,9,0,1,0,4,3,6,0,2,1,5,
    6,0,9,2,7,5,0,8,6,6,6,6,5,3,8,0,4,3,3,7,4,6,8,4,3,3,4,9,3,2,8,4,1,5,6,1,0,3,8,5,0,3,2,1,1,7,5,9,8,2,1,9,0,7,4,1,2,4,8,3,
    8,0,0,6,2,1,1,9,7,7,2,1,8,1,3,3,9,8,2,9,7,0,4,5,3,2,1,4,0,9,1,2,1,4,5,6,3,3,4,7,6,3,4,7,7,3,3,9,4,7,5,2,0,8,3,3,1,7,3,6,
    5,8,1,4,1,8,5,2,8,2,2,7,0,5,4,1,1,2,2,7,5,9,2,9,0,8,7,7,4,5,3,1,2,0,8,4,5,1,4,5,7,6,9,6,4,4,5,8,4,8,4,8,8,7,8,8,6,0,2,6,
    1,0,9,5,2,8,6,5,7,5,4,3,1,3,9,2,7,8,1,2,2,7,1,5,7,4,5,8,8,6,4,4,6,7,0,9,2,2,1,6,4,1,4,8,6,8,4,8,7,6,8,8,8,4,9,1,6,9,5,7,
    7,8,8,8,1,8,3,1,4,5,3,2,7,0,2,1,7,5,6,5,2,9,7,9,2,4,3,7,6,9,7,0,3,4,2,1,5,5,9,0,4,0,5,2,2,4,7,7,3,8,3,2,5,7,4,3,8,7,9,6,
    8,4,1,2,1,7,9,3,7,5,4,4,8,2,7,7,6,4,7,3,5,1,0,2,7,9,4,0,0,5,9,9,0,0,6,2,2,5,5,7,8,2,2,2,1,8,0,8,5,6,0,9,6,8,3,1,5,9,1,0,
    7,7,6,0,0,6,0,8,9,4,8,6,8,6,9,0,5,1,8,6,3,3,9,9,4,1,9,3,3,7,4,3,1,6,8,9,1,9,6,1,1,9,5,4,8,4,9,0,1,5,2,0,7,5,6,7,6,5,2,7,
    1,0,9,2,0,8,8,1,7,3,7,7,2,6,9,5,9,7,5,0,6,6,5,6,8,5,5,6,4,9,5,0,4,8,2,8,4,1,4,4,8,6,1,2,7,9,5,7,9,5,8,8,7,4,1,7,2,6,7,7,
    5,3,4,5,8,5,3,4,5,1,5,6,5,2,6,7,6,2,9,0,8,7,3,2,8,6,7,9,9,9,6,6,8,0,5,6,3,3,3,5,0,8,7,3,0,5,9,7,9,0,1,4,7,2,4,1,7,0,4,1,
    9,2,8,9,8,9,2,4,0,0,0,9,2,5,9,1,1,5,0,4,7,0,6,9,0,9,7,2,7,7,6,7,6,2,1,6,4,5,7,8,0,1,3,5,3,4,9,0,5,8,5,3,0,8,1,1,7,9,0,1,
    6,6,0,2,2,6,0,5,5,1,1,9,0,3,0,6,5,9,9,2,6,3,0,2,8,1,5,4,4,1,1,2,9,1,0,2,9,0,1,2,4,6,2,7,5,9,1,3,6,3,8,1,9,7,1,5,0,7,0,3,
    6,0,8,4,0,0,6,9,2,1,8,1,6,9,4,0,1,3,7,7,4,7,1,7,3,5,6,2,8,1,6,0,4,4,2,0,7,3,6,2,0,5,8,0,3,6,5,9,9,8,1,4,2,7,0,7,4,0,9,6,
    5,7,3,3,1,3,9,3,1,2,3,1,6,2,4,8,0,1,9,1,1,8,9,6,8,3,2,1,6,7,9,4,9,2,5,1,5,9,7,2,3,4,6,2,7,6,9,0,7,7,2,9,5,2,8,9,5,8,7,4,
    1,3,0,9,3,0,5,1,9,2,2,6,5,4,4,6,6,4,0,3,3,9,8,3,7,7,9,0,5,5,4,4,9,7,9,4,1,1,2,3,6,8,6,0,1,7,7,0,5,6,0,3,0,5,3,0,8,0,4,9,
    3,6,6,7,0,4,4,3,0,2,3,5,4,8,8,9,1,0,5,1,7,1,1,9,0,0,8,5,0,7,4,5,0,5,3,7,2,5,1,7,2,1,4,7,9,9,9,1,7,4,2,4,9,9,9,6,7,3,5,1,
    9,9,3,8,6,6,8,8,6,8,4,4,4,7,5,0,5,1,1,9,4,9,3,9,1,3,0,6,2,8,0,5,7,0,5,5,8,5,7,8,8,7,4,6,0,4,9,2,7,2,3,0,2,8,2,1,1,2,5,5,
    3,7,4,8,9,6,7,9,7,8,3,5,3,2,3,2,0,8,5,1,8,9,7,3,9,5,7,9,8,9,7,6,3,3,3,0,4,7,8,5,6,0,5,2,5,9,8,9,0,6,2,9,1,9,0,3,7,5,8,2,
    8,2,3,5,8,4,6,2,2,3,3,8,6,1,9,7,5,2,5,9,2,2,6,2,1,3,7,2,7,0,3,1,8,2,8,9,2,9,9,0,0,6,1,5,5,9,7,1,6,7,7,6,5,9,7,3,6,6,7,5,
    9,1,7,4,2,3,7,3,3,6,0,6,8,1,4,7,5,6,7,0,5,4,4,0,2,5,3,9,7,9,4,4,5,0,4,5,1,7,5,2,4,9,1,4,8,5,1,8,8,6,3,0,3,8,2,2,6,5,2,3,
    9,8,1,2,3,4,1,4,3,2,2,2,3,0,3,5,9,9,0,1,4,1,9,6,8,2,6,9,8,3,7,6,2,5,8,4,6,9,9,9,7,1,9,2,3,6,1,0,6,5,5,8,0,2,6,8,5,1,1,4,
    5,5,6,6,6,2,0,4,2,9,3,4,1,9,3,7,5,8,7,7,6,7,5,9,7,3,4,6,7,4,2,3,5,1,5,3,0,2,7,6,4,4,3,6,9,8,2,1,3,9,1,3,5,6,8,1,9,9,7,0,
    5,7,0,7,2,6,6,6,3,9,1,7,3,1,1,8,0,2,1,3,4,5,2,3,7,6,1,3,5,3,8,5,4,8,6,6,4,7,0,4,8,5,2,0,3,8,8,3,9,7,0,2,4,0,5,5,6,0,4,6,
    5,0,2,6,9,5,7,4,3,1,5,5,6,1,3,9,2,6,8,9,1,3,5,4,4,0,0,0,9,0,0,7,1,2,3,4,3,9,8,2,9,7,3,0,6,1,7,0,8,2,7,4,4,3,9,2,8,8,3,5,
    2,7,2,2,7,5,3,3,5,1,2,0,1,9,2,0,2,4,0,5,2,1,0,2,8,8,5,4,1,6,6,4,5,9,6,7,3,3,9,7,2,0,2,8,6,6,0,8,2,6,6,7,6,1,6,3,2,1,9,3,
    8,2,3,4,9,4,6,4,3,1,2,7,5,2,0,3,3,4,7,3,0,7,8,4,8,8,3,6,6,9,5,0,7,1,3,8,7,8,1,5,2,0,9,5,3,1,0,3,5,8,2,3,5,7,0,2,2,6,1,8,
    9,3,7,4,7,1,3,6,0,3,3,0,0,1,2,2,4,1,8,2,5,8,9,2,5,9,9,4,9,1,6,3,6,5,2,7,5,4,0,1,1,6,2,0,6,8,2,9,7,6,1,3,7,5,4,8,7,2,1,3,
    4,9,6,0,3,0,0,5,8,6,0,1,8,5,5,9,1,6,9,4,3,8,6,8,2,1,5,4,2,1,2,3,1,8,3,1,8,5,6,4,9,5,5,7,4,5,7,8,0,7,7,0,0,1,0,8,4,6,4,1,
    7,1,7,9,9,8,7,4,1,7,0,2,5,6,2,0,1,3,6,8,8,8,4,5,6,5,1,9,5,3,9,3,3,1,4,6,0,6,2,3,1,4,1,7,8,8,7,1,7,1,1,6,4,8,0,2,8,6,5,7,
    2,6,1,1,1,0,6,9,5,8,1,4,0,9,8,6,5,6,5,6,0,6,3,4,5,1,1,8,0,8,3,0,0,1,3,2,4,7,6,1,6,2,5,0,0,4,0,2,8,9,1,3,6,6,2,4,3,4,9,1,
    1,9,2,3,4,8,9,6,7,1,1,4,4,8,1,3,0,7,7,7,1,0,4,9,0,4,5,1,8,5,2,0,3,3,8,1,2,6,8,8,5,1,9,7,9,1,1,9,4,9,7,7,6,3,4,8,2,7,9,2,
    3,7,2,9,8,9,6,9,7,8,8,9,4,5,9,4,5,1,4,9,4,2,8,6,7,3,1,3,1,5,5,6,9,1,2,9,1,5,3,7,3,5,7,8,2,9,0,4,0,2,0,2,5,1,3,0,6,2,0,5,
    4,7,8,9,3,7,0,6,8,4,9,1,2,4,6,2,8,7,7,5,2,1,3,9,0,2,6,1,6,3,1,7,4,1,1,0,8,9,1,5,6,5,4,7,6,1,0,1,9,7,0,4,1,1,0,7,3,6,2,1,
    3,1,7,5,6,1,4,4,1,5,6,0,6,7,4,9,5,5,2,4,8,3,2,6,0,3,7,0,3,5,9,9,0,0,7,5,6,8,9,3,5,8,6,5,0,9,7,2,0,1,1,2,8,5,2,1,9,3,8,0,
    9,7,8,0,3,7,2,8,3,4,5,7,8,8,9,5,4,3,3,9,3,0,4,1,8,3,4,3,5,2,9,2,5,7,2,8,1,0,9,3,2,7,8,5,5,0,2,7,6,6,8,8,3,4,7,9,7,9,7,7,
    2,8,5,1,4,9,0,9,0,4,4,2,7,9,6,8,5,7,2,0,8,8,4,5,4,1,6,1,7,1,3,2,6,7,7,2,4,0,4,7,2,5,3,8,0,1,0,9,9,4,7,0,1,4,2,6,1,8,2,1,
    5,7,2,6,5,9,1,9,9,2,0,5,3,5,1,0,3,5,3,3,5,9,7,3,5,9,8,8,6,6,6,9,0,5,9,6,5,9,6,4,8,5,3,7,4,1,9,1,0,5,6,8,3,7,7,3,8,9,1,2,
    8,0,7,2,0,4,7,4,8,2,0,9,2,6,1,0,7,8,2,3,5,5,4,9,7,1,0,0,4,2,0,6,4,7,5,7,9,2,6,0,4,2,0,8,4,6,6,0,7,0,4,8,2,2,5,7,9,0,0,7,
    6,1,0,8,2,5,7,1,6,6,0,8,7,5,7,5,6,9,7,3,3,7,5,6,8,3,5,4,2,4,4,4,9,4,3,0,9,5,5,0,2,9,0,0,5,0,6,8,8,7,6,0,5,6,2,7,8,7,8,3,
    9,8,7,7,9,2,4,8,6,2,8,4,0,3,6,2,8,6,6,5,8,9,9,3,1,4,1,8,1,1,1,5,2,6,5,3,2,3,5,8,8,6,2,0,9,8,0,1,0,2,6,9,2,8,3,2,3,5,2,0,
    8,0,1,8,3,8,3,0,9,9,5,6,9,2,0,3,2,7,8,1,3,8,6,7,7,8,9,7,6,0,8,4,6,8,2,9,1,8,4,7,3,9,7,6,6,7,3,3,9,2,2,2,0,7,4,2,1,6,1,5,
    3,3,1,7,8,8,7,7,0,5,6,5,5,8,3,3,3,8,8,3,8,4,7,4,5,2,9,4,8,5,0,4,3,2,8,8,4,1,6,0,0,1,2,0,8,6,0,9,8,5,7,9,3,7,3,1,9,8,1,8,
    4,5,6,9,8,6,6,8,2,6,9,5,8,5,1,9,5,5,5,6,7,5,3,8,3,1,9,0,4,8,9,3,2,0,6,5,8,0,2,9,2,2,1,9,0,9,5,0,5,3,0,0,7,2,2,9,9,4,4,9,
    3,5,9,8,7,1,3,9,6,9,1,7,0,4,1,7,0,3,3,8,9,8,5,4,6,1,4,2,1,0,3,0,1,7,1,3,6,3,9,0,6,2,2,0,3,4,7,7,8,2,2,7,3,3,0,7,4,8,5,9,
    3,4,2,3,1,0,6,2,7,4,8,3,6,6,4,0,6,9,9,0,6,7,1,1,6,0,0,0,4,4,5,3,8,9,1,0,5,4,6,3,4,7,0,9,3,2,1,6,7,9,0,0,2,6,5,7,4,1,4,2,
    9,8,6,5,2,7,7,7,8,1,7,3,2,8,8,7,3,8,7,6,1,4,1,4,0,2,9,4,0,3,0,0,0,3,2,4,9,1,2,2,6,8,9,2,3,6,1,8,4,2,1,1,3,4,2,0,4,2,9,6,
    3,4,1,4,9,5,5,5,4,3,0,6,0,0,2,9,3,3,2,8,1,3,2,1,2,0,9,3,3,8,4,3,1,2,1,4,8,5,7,1,5,5,9,2,3,1,4,2,7,3
>>

pi_digits == <<"1", "4", "1", "5", "9", "2", "6", "5", "3", "5", "8", "9", "7", "9", "3">>

Min(a, b) == IF a < b THEN a ELSE b

(* mpf_get_str(NULL, &exp, 10, n_digits, pi): at most n_digits significant
   digits, rounded on the digit that follows, trailing zeros removed.  GMP
   does not round exactly: when the following digit is 5 either direction is
   possible. *)
RoundChoices(n_digits) ==
    LET next == PiComputed[n_digits + 1]
    IN  IF next >= 6 THEN {TRUE} ELSE IF next <= 4 THEN {FALSE} ELSE {TRUE, FALSE}

\* the last of the first n_digits digits that is not a 9 (the first is a 3)
LastNon9(n_digits) ==
    CHOOSE j \in 1..n_digits :
        /\ PiComputed[j] # 9
        /\ \A m \in (j + 1)..n_digits : PiComputed[m] = 9

RoundUp(n_digits, k) ==
    [i \in 1..n_digits |->
        IF i < k THEN PiComputed[i]
        ELSE IF i = k THEN PiComputed[k] + 1 ELSE 0]

Rounded(n_digits) ==
    {IF up THEN RoundUp(n_digits, k) ELSE SubSeq(PiComputed, 1, n_digits) :
        up \in RoundChoices(n_digits), k \in {LastNon9(n_digits)}}

StripZeros(d) ==
    LET last == CHOOSE j \in 1..Len(d) :
                   d[j] # 0 /\ \A m \in (j + 1)..Len(d) : d[m] = 0
    IN  SubSeq(d, 1, last)

mpf_get_str(n_digits) ==
    {[i \in 1..Len(sd) |-> DigitChar(sd[i])] :
        sd \in {StripZeros(d) : d \in Rounded(n_digits)}}

\* src/src/c/pigame.c: calc_pi, the set of strings it can return (length >= 1)
calc_pi(len) ==
    IF len <= 15
    THEN {<<"3", ".">> \o SubSeq(pi_digits, 1, Min(len, 15))}
    ELSE {<<"3", ".">> \o Tail(result) : result \in mpf_get_str(len + 1)}

\* src/pigame.c: calc_pi, a fixed string whatever the length
calc_pi_legacy(len) == {<<"3", ".">> \o pi_digits}

(* ------------------------- Formatter ----------------------------------- *)
\* fault: the space test of the Differ (i > 1) used in the Formatter
format_pi_with_spaces_early_space(pi_str) ==
    LET len     == strlen(pi_str)
        Emit(i) == IF i > 1 /\ (i - 2) % 5 = 0
                   THEN <<" ", pi_str[i + 1]>>
                   ELSE <<pi_str[i + 1]>>
        body    == [k \in 1..(len - 2) |-> Emit(k + 1)]
    IN  <<pi_str[1], pi_str[2]>> \o Flatten(body, 1, len - 2)

\* src/src/c/pigame.c: format_pi_with_spaces
format_pi_with_spaces(pi_str) ==
    LET len     == strlen(pi_str)
        Emit(i) == IF i > 2 /\ (i - 2) % 5 = 0
                   THEN <<" ", pi_str[i + 1]>>
                   ELSE <<pi_str[i + 1]>>
        body    == [k \in 1..(len - 2) |-> Emit(k + 1)]
    IN  <<pi_str[1], pi_str[2]>> \o Flatten(body, 1, len - 2)

(* ------------------------- Differ -------------------------------------- *)
UNDERLINE == "ESC[4m"

RED == "ESC[0;31m"

RESET == "ESC[0m"

Escapes == {UNDERLINE, RED, RESET}

\* one line of standard output
Line(tag, text) == [tag |-> tag, text |-> text]

\* fault: positions beyond the reference are taken as matches
color_your_pi_unbounded(cand, ref, verb, colorblind) ==
    LET pi_len     == strlen(ref)
        Match(i)   == i >= pi_len \/ cand[i + 1] = ref[i + 1]
        Space(i)   == IF i > 1 /\ (i - 2) % 5 = 0 THEN <<" ">> ELSE <<>>
        Char(i)    == IF Match(i) THEN <<cand[i + 1]>>
                      ELSE IF colorblind THEN <<UNDERLINE, cand[i + 1], RESET>>
                      ELSE <<RED, cand[i + 1], RESET>>
        body       == [k \in 1..Len(cand) |-> Space(k - 1) \o Char(k - 1)]
        text       == Flatten(body, 1, Len(cand))
        Err(i)     == IF Match(i) THEN 0 ELSE 1
        errors     == SumRange([k \in 1..Len(cand) |-> Err(k - 1)], 1, Len(cand))
    IN  [text        |-> text,
         error_count |-> errors,
         out         |-> IF verb
                         THEN <<Line("diff", text), Line("errors", <<errors>>)>>
                         ELSE <<Line("diff", text)>>]

\* src/src/c/pigame.c: color_your_pi; text is the line it prints before "\n"
color_your_pi(cand, ref, verb, colorblind) ==
    LET pi_len     == strlen(ref)
        Match(i)   == i < pi_len /\ cand[i + 1] = ref[i + 1]
        Space(i)   == IF i > 1 /\ (i - 2) % 5 = 0 THEN <<" ">> ELSE <<>>
        Char(i)    == IF Match(i) THEN <<cand[i + 1]>>
                      ELSE IF colorblind THEN <<UNDERLINE, cand[i + 1], RESET>>
                      ELSE <<RED, cand[i + 1], RESET>>
        body       == [k \in 1..Len(cand) |-> Space(k - 1) \o Char(k - 1)]
        text       == Flatten(body, 1, Len(cand))
        Err(i)     == IF Match(i) THEN 0 ELSE 1
        errors     == SumRange([k \in 1..Len(cand) |-> Err(k - 1)], 1, Len(cand))
    IN  [text        |-> text,
         error_count |-> errors,
         out         |-> IF verb
                         THEN <<Line("diff", text), Line("errors", <<errors>>)>>
                         ELSE <<Line("diff", text)>>]

(* ------------------------- inputs -------------------------------------- *)
\* all sequences over alphabet of length 0..n
RECURSIVE Strings(_, _)
Strings(alphabet, n) ==
    IF n = 0 THEN {<<>>}
    ELSE LET shorter == Strings(alphabet, n - 1)
         IN  shorter \cup {Append(s, c) : s \in {t \in shorter : Len(t) = n - 1}, c \in alphabet}

InputStrings == Strings({"3", "1", ".", "a"}, MaxInputLen)

ArgStrings == Strings({" ", "-", "+", "0", "1", "2", "5", "a"}, MaxArgLen)

DiffStrings == Strings({"3", "1", "."}, MaxDiffLen)

\* "3." followed by 1..MaxPiDigits digits
PiStrings ==
    {<<"3", ".">> \o d : d \in (Strings({"1", "4"}, MaxPiDigits) \ {<<>>})}

IsPiString(s) ==
    /\ Len(s) >= 3
    /\ s[1] = "3"
    /\ s[2] = "."
    /\ \A i \in 3..Len(s) : isdigit(s[i])

NoStr == <<"(null)">>

(* ------------------------- calls of one function ----------------------- *)
MainIdle ==
    /\ build = "c"
    /\ opts = <<>>
    /\ your_pi = NoStr
    /\ pc = "idle"
    /\ verbose = FALSE
    /\ colorblind_mode = FALSE
    /\ length = DEFAULT_LENGTH
    /\ pi = NoStr
    /\ formatted_pi = NoStr
    /\ rendered = NoStr
    /\ error_count = 0
    /\ verdict = "none"
    /\ out = <<>>
    /\ err = <<>>
    /\ exit_code = -1
    /\ opt = "none"
    /\ optopt = "none"

InitUnit ==
    /\ MainIdle
    /\ fn = "none"
    /\ args = <<>>
    /\ ret = <<>>

Call(f, a, r) ==
    /\ fn' = f
    /\ args' = a
    /\ ret' = r
    /\ UNCHANGED mainVars

Call_input_validation ==
    /\ fn = "none"
    /\ \E input \in InputStrings :
        Call("input_validation", <<input>>, input_validation(input))

Call_input_validation_legacy ==
    /\ fn = "none"
    /\ \E input \in InputStrings :
        Call("input_validation_legacy", <<input>>, input_validation_legacy(input))

NextValidate == Call_input_validation \/ Call_input_validation_legacy

SpecValidate == InitUnit /\ [][NextValidate]_vars

Call_length_validation ==
    /\ fn = "none"
    /\ \E input \in ArgStrings :
        Call("length_validation", <<input>>, length_validation(input))

NextLength == Call_length_validation

SpecLength == InitUnit /\ [][NextLength]_vars

Call_calc_pi ==
    /\ fn = "none"
    /\ \E len \in 1..MaxCalcLen : \E r \in calc_pi(len) :
        Call("calc_pi", <<len>>, r)

Call_calc_pi_legacy ==
    /\ fn = "none"
    /\ \E len \in 1..MaxCalcLen : \E r \in calc_pi_legacy(len) :
        Call("calc_pi_legacy", <<len>>, r)

NextCalc == Call_calc_pi \/ Call_calc_pi_legacy

SpecCalc == InitUnit /\ [][NextCalc]_vars

Call_format_pi_with_spaces ==
    /\ fn = "none"
    /\ \E pi_str \in PiStrings :
        Call("format_pi_with_spaces", <<pi_str>>, format_pi_with_spaces(pi_str))

NextFormat == Call_format_pi_with_spaces

SpecFormat == InitUnit /\ [][NextFormat]_vars

DiffPairs ==
    (DiffStrings \X DiffStrings) \cup {<<p, p>> : p \in PiStrings}

Call_color_your_pi ==
    /\ fn = "none"
    /\ \E pair \in DiffPairs, cb \in BOOLEAN :
        Call("color_your_pi", <<pair[1], pair[2], cb>>,
             color_your_pi(pair[1], pair[2], FALSE, cb))

NextDiffer == Call_color_your_pi

SpecDiffer == InitUnit /\ [][NextDiffer]_vars

(* ------------------------- command line -------------------------------- *)
(* argv is modelled after getopt's permutation: the option tokens in order,
   then the first operand (YOUR_PI) if there is one. *)
Opt(o, a) == [opt |-> o, optarg |-> a]

PArgs ==
    {<<"5">>, <<"0">>, <<"a">>, <<" ", "7">>, <<"1", "6">>, <<"5", "0", "0", "2">>}

OptTokens ==
    {Opt("v", NoStr), Opt("c", NoStr), Opt("V", NoStr), Opt("h", NoStr), Opt("p", NoStr)}
        \cup {Opt("p", a) : a \in PArgs}

RECURSIVE OptSeqs(_)
OptSeqs(n) ==
    IF n = 0 THEN {<<>>}
    ELSE LET shorter == OptSeqs(n - 1)
         IN  shorter \cup {Append(s, t) : s \in {u \in shorter : Len(u) = n - 1}, t \in OptTokens}

EasterEggs ==
    {<<"A", "r", "c", "h", "i", "m", "e", "d", "e", "s">>, <<"p", "i">>, <<"P", "I">>}

\* a digit that differs from c
Other(c) == IF c = "1" THEN "2" ELSE "1"

Mutate(s, k) == [i \in 1..Len(s) |-> IF i = k THEN Other(s[i]) ELSE s[i]]

References ==
    UNION {calc_pi(n) : n \in 1..MaxRefLen}

RefCandidates ==
    UNION {{r, Mutate(r, Len(r)), Append(r, "1")} : r \in References}

\* "3." followed by ones, MAX_LENGTH + 2 + over characters in all
LongCandidate(over) ==
    [i \in 1..(MAX_LENGTH + 2 + over) |->
        IF i = 1 THEN "3" ELSE IF i = 2 THEN "." ELSE "1"]

LongCandidates == {LongCandidate(over) : over \in 0..MaxOver}

Candidates ==
    {NoStr} \cup Strings({"3", ".", "a"}, MaxCandLen) \cup EasterEggs \cup RefCandidates

FlagSeqs ==
    {<<>>, <<Opt("v", NoStr)>>, <<Opt("c", NoStr)>>, <<Opt("v", NoStr), Opt("c", NoStr)>>}

InitMain ==
    /\ build \in {"c", "legacy"}
    /\ \/ opts \in OptSeqs(MaxOpts) /\ your_pi \in Candidates
       \/ opts \in FlagSeqs /\ your_pi \in LongCandidates
    /\ pc = "getopt"
    /\ verbose = FALSE
    /\ colorblind_mode = FALSE
    /\ length = DEFAULT_LENGTH
    /\ pi = NoStr
    /\ formatted_pi = NoStr
    /\ rendered = NoStr
    /\ error_count = 0
    /\ verdict = "none"
    /\ out = <<>>
    /\ err = <<>>
    /\ exit_code = -1
    /\ opt = "none"
    /\ optopt = "none"
    /\ fn = "none"
    /\ args = <<>>
    /\ ret = <<>>

\* usage(): the text goes to stderr and the process exits with 1
usage(messages) ==
    /\ err' = err \o messages \o <<"usage">>
    /\ exit_code' = 1
    /\ pc' = "exit"

return(code) ==
    /\ exit_code' = code
    /\ pc' = "exit"

PiLine(verb, len, text) ==
    IF verb THEN Line("pi_with_decimals", <<len>> \o text) ELSE Line("pi", text)

(* ------------------------- main, src/src/c/pigame.c -------------------- *)
Getopt_v ==
    /\ build = "c" /\ pc = "getopt" /\ opts # <<>>
    /\ Head(opts).opt = "v"
    /\ verbose' = TRUE
    /\ opts' = Tail(opts)
    /\ UNCHANGED <<build, your_pi, pc, colorblind_mode, length, pi, formatted_pi,
                   rendered, error_count, verdict, out, err, exit_code>>
    /\ opt' = Head(opts).opt
    /\ UNCHANGED optopt
    /\ UNCHANGED unitVars

Getopt_c ==
    /\ build = "c" /\ pc = "getopt" /\ opts # <<>>
    /\ Head(opts).opt = "c"
    /\ colorblind_mode' = TRUE
    /\ opts' = Tail(opts)
    /\ UNCHANGED <<build, your_pi, pc, verbose, length, pi, formatted_pi,
                   rendered, error_count, verdict, out, err, exit_code>>
    /\ opt' = Head(opts).opt
    /\ UNCHANGED optopt
    /\ UNCHANGED unitVars

Getopt_p ==
    /\ build = "c" /\ pc = "getopt" /\ opts # <<>>
    /\ Head(opts).opt = "p" /\ Head(opts).optarg # NoStr
    /\ opts' = Tail(opts)
    /\ length' = length_validation(Head(opts).optarg)
    /\ IF length' = -1
       THEN /\ usage(<<"invalid_length">>)
            /\ UNCHANGED <<pi, formatted_pi, out>>
       ELSE /\ pi' \in calc_pi(length')
            /\ formatted_pi' = format_pi_with_spaces(pi')
            /\ out' = Append(out, PiLine(verbose, length', formatted_pi'))
            /\ return(0)
            /\ UNCHANGED err
    /\ UNCHANGED <<build, your_pi, verbose, colorblind_mode, rendered, error_count, verdict>>
    /\ opt' = Head(opts).opt
    /\ UNCHANGED optopt
    /\ UNCHANGED unitVars

Getopt_V ==
    /\ build = "c" /\ pc = "getopt" /\ opts # <<>>
    /\ Head(opts).opt = "V"
    /\ opts' = Tail(opts)
    /\ out' = Append(out, Line("version", <<>>))
    /\ return(0)
    /\ UNCHANGED <<build, your_pi, verbose, colorblind_mode, length, pi, formatted_pi,
                   rendered, error_count, verdict, err>>
    /\ opt' = Head(opts).opt
    /\ UNCHANGED optopt
    /\ UNCHANGED unitVars

\* getopt returns '?' for a letter outside "vp:Vc" and for -p without argument
Getopt_default ==
    /\ build = "c" /\ pc = "getopt" /\ opts # <<>>
    /\ \/ Head(opts).opt \notin {"v", "p", "V", "c"}
       \/ Head(opts).opt = "p" /\ Head(opts).optarg = NoStr
    /\ opts' = Tail(opts)
    /\ usage(<<"getopt_error">>)
    /\ UNCHANGED <<build, your_pi, verbose, colorblind_mode, length, pi, formatted_pi,
                   rendered, error_count, verdict, out>>
    /\ opt' = "?"
    /\ optopt' = Head(opts).opt
    /\ UNCHANGED unitVars

EasterEgg ==
    /\ build = "c" /\ pc = "getopt" /\ opts = <<>>
    /\ your_pi # NoStr
    /\ your_pi \in EasterEggs
    /\ out' = Append(out, Line("archimedes", <<>>))
    /\ return(0)
    /\ UNCHANGED <<build, opts, your_pi, verbose, colorblind_mode, length, pi, formatted_pi,
                   rendered, error_count, verdict, err>>
    /\ opt' = "EOF"
    /\ UNCHANGED optopt
    /\ UNCHANGED unitVars

InvalidInput ==
    /\ build = "c" /\ pc = "getopt" /\ opts = <<>>
    /\ your_pi # NoStr
    /\ your_pi \notin EasterEggs
    /\ ~input_validation(your_pi)
    /\ usage(<<"invalid_input">>)
    /\ UNCHANGED <<build, opts, your_pi, verbose, colorblind_mode, length, pi, formatted_pi,
                   rendered, error_count, verdict, out>>
    /\ opt' = "EOF"
    /\ UNCHANGED optopt
    /\ UNCHANGED unitVars

\* fault: only the "3" is taken off the character count
DerivedLength_minus_one(cand) ==
    IF strlen(cand) - 1 < 1 THEN 1 ELSE strlen(cand) - 1

(* length = strlen(your_pi) - 2; if (length < 1) length = 1;  For a candidate
   of 0 or 1 characters the unsigned difference wraps and converts to the int
   -2 or -1, which the clamp then raises to 1. *)
DerivedLength(cand) ==
    IF strlen(cand) - 2 < 1 THEN 1 ELSE strlen(cand) - 2

\* the verdict printed after the comparison
Classify(cand, ref, len, verb) ==
    IF verb
    THEN IF strcmp0(ref, cand)
         THEN IF len < 15 THEN "WellDone" ELSE "Perfect"
         ELSE "CanDoBetter"
    ELSE IF strcmp0(ref, cand) THEN "Match" ELSE "NoMatch"

Compare ==
    /\ build = "c" /\ pc = "getopt" /\ opts = <<>>
    /\ your_pi # NoStr
    /\ your_pi \notin EasterEggs
    /\ input_validation(your_pi)
    /\ length' = DerivedLength(your_pi)
    /\ pi' \in calc_pi(length')
    /\ formatted_pi' = format_pi_with_spaces(pi')
    /\ LET diff == color_your_pi(your_pi, pi', verbose, colorblind_mode)
       IN  /\ rendered' = diff.text
           /\ error_count' = diff.error_count
           /\ verdict' = Classify(your_pi, pi', length', verbose)
           /\ out' = out \o <<PiLine(verbose, length', formatted_pi')>>
                         \o (IF verbose THEN <<Line("your_version", <<>>)>> ELSE <<>>)
                         \o diff.out
                         \o <<Line("verdict", <<verdict'>>)>>
    /\ return(0)
    /\ UNCHANGED <<build, opts, your_pi, verbose, colorblind_mode, err>>
    /\ opt' = "EOF"
    /\ UNCHANGED optopt
    /\ UNCHANGED unitVars

NoArguments ==
    /\ build = "c" /\ pc = "getopt" /\ opts = <<>>
    /\ your_pi = NoStr
    /\ IF ~verbose /\ length = DEFAULT_LENGTH
       THEN usage(<<>>)
       ELSE return(0) /\ UNCHANGED err
    /\ UNCHANGED <<build, opts, your_pi, verbose, colorblind_mode, length, pi, formatted_pi,
                   rendered, error_count, verdict, out>>
    /\ opt' = "EOF"
    /\ UNCHANGED optopt
    /\ UNCHANGED unitVars

(* ------------------------- main, src/pigame.c -------------------------- *)
Legacy_getopt_v ==
    /\ build = "legacy" /\ pc = "getopt" /\ opts # <<>>
    /\ Head(opts).opt = "v"
    /\ verbose' = TRUE
    /\ opts' = Tail(opts)
    /\ UNCHANGED <<build, your_pi, pc, colorblind_mode, length, pi, formatted_pi,
                   rendered, error_count, verdict, out, err, exit_code>>
    /\ opt' = Head(opts).opt
    /\ UNCHANGED optopt
    /\ UNCHANGED unitVars

Legacy_getopt_p ==
    /\ build = "legacy" /\ pc = "getopt" /\ opts # <<>>
    /\ Head(opts).opt = "p" /\ Head(opts).optarg # NoStr
    /\ opts' = Tail(opts)
    /\ length' = length_validation(Head(opts).optarg)
    /\ IF length' = -1
       THEN usage(<<"invalid_length">>)
       ELSE UNCHANGED <<err, exit_code, pc>>
    /\ UNCHANGED <<build, your_pi, verbose, colorblind_mode, pi, formatted_pi,
                   rendered, error_count, verdict, out>>
    /\ opt' = Head(opts).opt
    /\ UNCHANGED optopt
    /\ UNCHANGED unitVars

Legacy_getopt_V ==
    /\ build = "legacy" /\ pc = "getopt" /\ opts # <<>>
    /\ Head(opts).opt = "V"
    /\ opts' = Tail(opts)
    /\ out' = Append(out, Line("version", <<>>))
    /\ return(0)
    /\ UNCHANGED <<build, your_pi, verbose, colorblind_mode, length, pi, formatted_pi,
                   rendered, error_count, verdict, err>>
    /\ opt' = Head(opts).opt
    /\ UNCHANGED optopt
    /\ UNCHANGED unitVars

\* getopt returns '?' for a letter outside "vp:V" and for -p without argument
Legacy_getopt_default ==
    /\ build = "legacy" /\ pc = "getopt" /\ opts # <<>>
    /\ \/ Head(opts).opt \notin {"v", "p", "V"}
       \/ Head(opts).opt = "p" /\ Head(opts).optarg = NoStr
    /\ opts' = Tail(opts)
    /\ usage(<<"getopt_error">>)
    /\ UNCHANGED <<build, your_pi, verbose, colorblind_mode, length, pi, formatted_pi,
                   rendered, error_count, verdict, out>>
    /\ opt' = "?"
    /\ optopt' = Head(opts).opt
    /\ UNCHANGED unitVars

Legacy_usage ==
    /\ build = "legacy" /\ pc = "getopt" /\ opts = <<>>
    /\ \/ /\ your_pi # NoStr
          /\ ~input_validation_legacy(your_pi)
          /\ usage(<<"invalid_input">>)
       \/ /\ your_pi = NoStr
          /\ ~verbose /\ length = DEFAULT_LENGTH
          /\ usage(<<>>)
    /\ UNCHANGED <<build, opts, your_pi, verbose, colorblind_mode, length, pi, formatted_pi,
                   rendered, error_count, verdict, out>>
    /\ opt' = "EOF"
    /\ UNCHANGED optopt
    /\ UNCHANGED unitVars

\* the verdict of src/pigame.c, lines 88-108
Classify_legacy(cand, ref, len, verb) ==
    IF verb
    THEN IF strcmp0(ref, cand) THEN "Perfect" ELSE "CanDoBetter"
    ELSE IF strcmp0(ref, cand) THEN "Match" ELSE "NoMatch"

Legacy_output ==
    /\ build = "legacy" /\ pc = "getopt" /\ opts = <<>>
    /\ \/ your_pi # NoStr /\ input_validation_legacy(your_pi)
       \/ your_pi = NoStr /\ ~(~verbose /\ length = DEFAULT_LENGTH)
    /\ pi' \in calc_pi_legacy(length)
    /\ verdict' = IF your_pi = NoStr THEN "none"
                  ELSE Classify_legacy(your_pi, pi', length, verbose)
    /\ out' = out \o <<PiLine(verbose, length, pi')>>
                  \o (IF your_pi = NoStr THEN <<>>
                      ELSE <<Line("your_pi", your_pi), Line("verdict", <<verdict'>>)>>)
    /\ return(0)
    /\ UNCHANGED <<build, opts, your_pi, verbose, colorblind_mode, length, formatted_pi,
                   rendered, error_count, err>>
    /\ opt' = "EOF"
    /\ UNCHANGED optopt
    /\ UNCHANGED unitVars

NextMain ==
    \/ Getopt_v
    \/ Getopt_c
    \/ Getopt_p
    \/ Getopt_V
    \/ Getopt_default
    \/ EasterEgg
    \/ InvalidInput
    \/ Compare
    \/ NoArguments
    \/ Legacy_getopt_v
    \/ Legacy_getopt_p
    \/ Legacy_getopt_V
    \/ Legacy_getopt_default
    \/ Legacy_usage
    \/ Legacy_output

Spec == InitMain /\ [][NextMain]_vars

(* ========================= properties ================================== *)
\* the characters the Differ emitted, in order, each with its marking
RECURSIVE Emissions(_)
Emissions(text) ==
    IF text = <<>> THEN <<>>
    ELSE IF Head(text) = " " THEN Emissions(Tail(text))
    ELSE IF Head(text) \in {UNDERLINE, RED}
         THEN <<[char |-> text[2], marked |-> TRUE]>> \o Emissions(SubSeq(text, 4, Len(text)))
         ELSE <<[char |-> Head(text), marked |-> FALSE]>> \o Emissions(Tail(text))

\* position i (from 0) of cand agrees with ref
Agree(cand, ref, i) == i < Len(ref) /\ cand[i + 1] = ref[i + 1]

(* C1: the Differ emits every character of the candidate in order, unmarked
   exactly at the positions i < length(reference) where candidate and
   reference agree and marked everywhere else; error_count is the number of
   marked positions; a candidate equal to the reference has error_count 0
   and no escape sequence in its text. *)
C1_DifferMarksExactlyMismatches ==
    fn = "color_your_pi" =>
        LET cand == args[1]
            ref  == args[2]
            e    == Emissions(ret.text)
        IN  /\ Len(e) = Len(cand)
            /\ \A i \in 0..(Len(cand) - 1) :
                   /\ e[i + 1].char = cand[i + 1]
                   /\ e[i + 1].marked <=> ~Agree(cand, ref, i)
            /\ ret.error_count = Cardinality({i \in 0..(Len(cand) - 1) : ~Agree(cand, ref, i)})
            /\ (cand = ref =>
                   /\ ret.error_count = 0
                   /\ \A k \in 1..Len(ret.text) : ret.text[k] \notin Escapes)

\* a candidate longer than a non-empty reference, wrong only beyond its end
C1_Witness ==
    /\ fn = "color_your_pi"
    /\ Len(args[2]) > 0
    /\ Len(args[1]) > Len(args[2])
    /\ ret.error_count = Len(args[1]) - Len(args[2])

(* C2: the verdict rests on exact equality of candidate and reference (same
   length, same characters): terse mode gives Match / NoMatch; verbose mode
   gives CanDoBetter when they differ, Perfect when equal with length >= 15
   and WellDone when equal with length < 15. *)
SameString(a, b) ==
    /\ Len(a) = Len(b)
    /\ \A i \in 1..Len(a) : a[i] = b[i]

C2_VerdictByEqualityAndLength ==
    verdict # "none" =>
        verdict = IF verbose
                  THEN IF SameString(your_pi, pi)
                       THEN IF length >= 15 THEN "Perfect" ELSE "WellDone"
                       ELSE "CanDoBetter"
                  ELSE IF SameString(your_pi, pi) THEN "Match" ELSE "NoMatch"

\* C2 restricted to the build of src/src/c/pigame.c
C2_VerdictCurrentBuild == build = "c" => C2_VerdictByEqualityAndLength

(* C3: for a candidate equal to a reference PiString the text of the Differ
   is the text of the Formatter for that reference. *)
C3_DifferSpacingIsFormatterSpacing ==
    (fn = "color_your_pi" /\ args[1] = args[2] /\ IsPiString(args[2])) =>
        ret.text = format_pi_with_spaces(args[2])

NotSpace(c) == c # " "

\* what C4 says of format apart from the length of its output
FormatKeepsDigits(in, result) ==
    /\ result[1] = in[1]
    /\ result[2] = in[2]
    /\ SelectSeq(result, NotSpace) = in
    /\ \A k \in 1..(Len(result) - 1) : result[k] = " " => result[k + 1] # " "

(* C4 as stated: format keeps the first two characters and the digits in
   order, inserts only single spaces, and its output has
   input length + floor((input length - 2) / 5) characters. *)
C4_FormatLengthAsStated ==
    fn = "format_pi_with_spaces" =>
        /\ FormatKeepsDigits(args[1], ret)
        /\ Len(ret) = Len(args[1]) + ((Len(args[1]) - 2) \div 5)

(* C4 amended: as above, with an output of
   input length + floor((input length - 3) / 5) characters: no space follows
   the last digit when the digits are a multiple of 5. *)
C4_FormatLength ==
    fn = "format_pi_with_spaces" =>
        /\ FormatKeepsDigits(args[1], ret)
        /\ Len(ret) = Len(args[1]) + ((Len(args[1]) - 3) \div 5)

\* ten fractional digits: one space, after the fifth digit only
C4_Witness ==
    /\ fn = "format_pi_with_spaces"
    /\ Len(args[1]) = 12
    /\ Len(ret) = 13
    /\ ret[8] = " "

(* C5: is_valid is false for the empty string, for a string with a character
   that is neither a digit nor '.', and for a string with two or more '.';
   it is true for every other string. *)
WellFormedInput(input) ==
    /\ input # <<>>
    /\ \A i \in 1..Len(input) : input[i] \in Digit \cup {"."}
    /\ Cardinality({i \in 1..Len(input) : input[i] = "."}) < 2

C5_IsValid ==
    fn \in {"input_validation", "input_validation_legacy"} =>
        (ret <=> WellFormedInput(args[1]))

\* C5 restricted to the build of src/src/c/pigame.c
C5_IsValidCurrentBuild ==
    fn = "input_validation" => (ret <=> WellFormedInput(args[1]))

(* C6: length_validation returns -1 when the argument is not a pure base-10
   integer literal (an optional sign, then digits and nothing else), or its
   value is <= 0 or > MAX_LENGTH; otherwise it returns the value, which lies
   in 1..MAX_LENGTH. *)
IsIntegerLiteral(input) ==
    LET first == IF input # <<>> /\ input[1] \in {"-", "+"} THEN 2 ELSE 1
    IN  /\ Len(input) >= first
        /\ \A i \in first..Len(input) : input[i] \in Digit

RECURSIVE DecimalValue(_)
DecimalValue(digits) ==
    IF digits = <<>> THEN 0
    ELSE 10 * DecimalValue(SubSeq(digits, 1, Len(digits) - 1)) + DigitValue(digits[Len(digits)])

LiteralValue(input) ==
    IF input[1] = "-" THEN 0 - DecimalValue(Tail(input))
    ELSE IF input[1] = "+" THEN DecimalValue(Tail(input))
    ELSE DecimalValue(input)

C6_ResolveExplicit ==
    fn = "length_validation" =>
        IF ~IsIntegerLiteral(args[1])
        THEN ret = -1
        ELSE IF LiteralValue(args[1]) <= 0 \/ LiteralValue(args[1]) > MAX_LENGTH
             THEN ret = -1
             ELSE ret = LiteralValue(args[1]) /\ ret \in 1..MAX_LENGTH

\* C6 with leading white space counted as part of the literal
C6_ResolveExplicitModuloSpace ==
    fn = "length_validation" =>
        LET body == SubSeq(args[1], SkipSpace(args[1], 0) + 1, Len(args[1]))
        IN  IF ~IsIntegerLiteral(body)
            THEN ret = -1
            ELSE IF LiteralValue(body) <= 0 \/ LiteralValue(body) > MAX_LENGTH
                 THEN ret = -1
                 ELSE ret = LiteralValue(body) /\ ret \in 1..MAX_LENGTH

\* C6, the caller: a rejected -p argument ends the run with usage and exit 1
C6_InvalidLengthExits ==
    (pc = "exit" /\ opt = "p" /\ length = -1) =>
        /\ exit_code = 1
        /\ err = <<"invalid_length", "usage">>
        /\ out = <<>>

(* C7: the length handed to calc_pi, on the -p path and on the path that
   derives it from the candidate, lies in 1..MAX_LENGTH. *)
C7_DigitLengthInRange ==
    pi # NoStr => (1 <= length /\ length <= MAX_LENGTH)

(* C8: for a length in 1..MAX_LENGTH the string calc_pi returns has
   length + 2 characters and starts with "3.". *)
C8_DigitsLength ==
    fn \in {"calc_pi", "calc_pi_legacy"} =>
        /\ Len(ret) = args[1] + 2
        /\ ret[1] = "3"
        /\ ret[2] = "."

\* what does hold of calc_pi in src/src/c/pigame.c
C8_DigitsAtMostLength ==
    fn = "calc_pi" =>
        /\ Len(ret) <= args[1] + 2
        /\ Len(ret) >= 3
        /\ IsPiString(ret)
        /\ (args[1] <= 15 => Len(ret) = args[1] + 2)

(* C9: -h prints the usage text to standard output and exits with 0; an
   unknown option, an invalid -p value, an invalid candidate or no argument
   at all prints to standard error and exits with 1. *)
UsageOnStdout == \E k \in 1..Len(out) : out[k].tag = "usage"

UsageOnStderr == \E k \in 1..Len(err) : err[k] = "usage"

Malformed ==
    \/ opt = "?" /\ optopt # "h"
    \/ opt = "p" /\ length = -1
    \/ opt = "EOF" /\ your_pi # NoStr /\ your_pi \notin EasterEggs /\ ~WellFormedInput(your_pi)
    \/ opt = "EOF" /\ your_pi = NoStr /\ ~verbose /\ ~colorblind_mode /\ length = DEFAULT_LENGTH

C9_HelpAndUsageErrors ==
    pc = "exit" =>
        /\ (opt = "?" /\ optopt = "h") =>
               (UsageOnStdout /\ err = <<>> /\ exit_code = 0)
        /\ Malformed => (UsageOnStderr /\ exit_code = 1)

\* C9 without its -h half, for the build of src/src/c/pigame.c
C9_UsageErrorsCurrentBuild ==
    (build = "c" /\ pc = "exit" /\ Malformed) => (UsageOnStderr /\ exit_code = 1)

(* C10: after a comparison of a validated candidate of at least 3 characters
   with a reference of length + 2 characters, candidate and reference have
   the same length, no candidate position lies beyond the reference, and the
   verdict is a match exactly when error_count is 0. *)
C10_MatchIffNoErrors ==
    (build = "c" /\ verdict # "none" /\ Len(your_pi) >= 3 /\ Len(pi) = length + 2) =>
        /\ Len(your_pi) = Len(pi)
        /\ \A i \in 0..(Len(your_pi) - 1) : i < Len(pi)
        /\ verdict \in {"Match", "WellDone", "Perfect"} <=> error_count = 0

\* a candidate of more than 15 digits that equals the computed reference
C10_Witness ==
    /\ build = "c"
    /\ verdict = "Perfect"
    /\ length > 15
    /\ Len(your_pi) = length + 2
    /\ error_count = 0

====
